---------------------------- MODULE Spec2Model ----------------------------
(***************************************************************************)
(* A model of the foosball ELO system (src/foosball.py): the registry of   *)
(* player records, the snapshot file elo.txt, and the command loop with    *)
(* its match, combine, query and exit commands.                            *)
(*                                                                         *)
(* Text (names, commands, snapshot lines) is a sequence of one-character   *)
(* strings, so that canonicalize, the regular expressions of the command   *)
(* parsers, split/strip and the decimal formatting and parsing of the      *)
(* snapshot are computed as the code computes them.                        *)
(***************************************************************************)
EXTENDS Integers, Sequences, FiniteSets, TLC

VARIABLES
    players,   \* the registry: canonical key -> record (src/foosball.py:85)
    file,      \* the lines of elo.txt, or NoFile when it does not exist
    pc,        \* where main() is: "start", "ready", "exited" or "crashed"
    steps,     \* number of commands read so far by the loop
    last,      \* the command last read and how its handler ended
    call       \* a call of a pure function: its arguments and its result

vars == <<players, file, pc, steps, last, call>>

-----------------------------------------------------------------------------
(* Global constants, lines 9-63 *)

K_FACTOR == 32
RATING_MIN == 100
RATING_MAX == 2999

\* The multipliers 1.0, 0.75, 0.5, 1.25, 1.5 in quarters (multiplier * 4).
WIN_TYPE_MULTIPLIERS ==
    [t \in {<<"w", "i", "n">>, <<"s", "m", "a", "l", "l", "w", "i", "n">>, <<"c", "l", "o", "s", "e", "w", "i", "n">>, <<"b", "i", "g", "w", "i", "n">>, <<"p", "e", "r", "f", "e", "c", "t", "w", "i", "n">>} |->
        CASE t = <<"w", "i", "n">> -> 4
          [] t = <<"s", "m", "a", "l", "l", "w", "i", "n">> -> 3
          [] t = <<"c", "l", "o", "s", "e", "w", "i", "n">> -> 2
          [] t = <<"b", "i", "g", "w", "i", "n">> -> 5
          [] t = <<"p", "e", "r", "f", "e", "c", "t", "w", "i", "n">> -> 6]

\* The rank names, as text.
Iron == <<"i", "r", "o", "n">>
Steel == <<"s", "t", "e", "e", "l">>
Bronze == <<"b", "r", "o", "n", "z", "e">>
Copper == <<"c", "o", "p", "p", "e", "r">>
Silver == <<"s", "i", "l", "v", "e", "r">>
Gold == <<"g", "o", "l", "d">>
Plat == <<"p", "l", "a", "t">>
Jade == <<"j", "a", "d", "e">>
Emerald == <<"e", "m", "e", "r", "a", "l", "d">>
Diamond == <<"d", "i", "a", "m", "o", "n", "d">>
Master == <<"m", "a", "s", "t", "e", "r">>
SuperMaster == <<"s", "u", "p", "e", "r", "-", "m", "a", "s", "t", "e", "r">>
GrandMaster == <<"g", "r", "a", "n", "d", "-", "m", "a", "s", "t", "e", "r">>
Ultra == <<"u", "l", "t", "r", "a">>

RANK_THRESHOLDS ==
    << <<2999, Ultra>>,
       <<2900, GrandMaster>>,
       <<2666, SuperMaster>>,
       <<2468, Master>>,
       <<2222, Diamond>>,
       <<1650, Emerald>>,
       <<1234, Jade>>,
       <<850, Plat>>,
       <<450, Gold>>,
       <<250, Silver>>,
       <<200, Copper>>,
       <<150, Bronze>>,
       <<125, Steel>>,
       <<99, Iron>> >>

HIDDEN_RANK == <<"l", "z">>
SPECIAL_IM == <<"i", "m">>

RANK_ORDER ==
    (Iron :> 0 @@
     Steel :> 1 @@
     Bronze :> 2 @@
     Copper :> 3 @@
     Silver :> 4 @@
     Gold :> 5 @@
     Plat :> 6 @@
     Jade :> 7 @@
     Emerald :> 8 @@
     Diamond :> 9 @@
     Master :> 10 @@
     SuperMaster :> 11 @@
     GrandMaster :> 12 @@
     Ultra :> 13 @@
     HIDDEN_RANK :> 13 @@
     SPECIAL_IM :> 13)

\* RANK_ORDER.get(rank, dflt)
RankOrderGet(rank, dflt) ==
    IF rank \in DOMAIN RANK_ORDER THEN RANK_ORDER[rank] ELSE dflt

-----------------------------------------------------------------------------
(* Characters and text *)

UpperChars ==
    <<"A", "B", "C", "D", "E", "F", "G", "H", "I", "J", "K", "L", "M",
      "N", "O", "P", "Q", "R", "S", "T", "U", "V", "W", "X", "Y", "Z">>
LowerChars ==
    <<"a", "b", "c", "d", "e", "f", "g", "h", "i", "j", "k", "l", "m",
      "n", "o", "p", "q", "r", "s", "t", "u", "v", "w", "x", "y", "z">>
DigitChars == <<"0", "1", "2", "3", "4", "5", "6", "7", "8", "9">>

\* The characters of the model's texts in code point order.
CodeOrder ==
    <<" ", ",", "-", ".">> \o DigitChars \o <<";">> \o UpperChars \o LowerChars

Range(s) == {s[i] : i \in 1..Len(s)}

IndexIn(s, c) == CHOOSE i \in 1..Len(s) : s[i] = c

\* ord(c), up to an order-preserving renumbering
CharCode(c) == IndexIn(CodeOrder, c)

UpperSet == Range(UpperChars)
DigitSet == Range(DigitChars)
AlnumSet == Range(UpperChars) \cup Range(LowerChars) \cup Range(DigitChars)

\* c.lower(), as a table over the characters of the model
LowerTable ==
    [c \in Range(CodeOrder) |->
        IF c \in UpperSet THEN LowerChars[IndexIn(UpperChars, c)] ELSE c]
LowerChar(c) == LowerTable[c]

\* s.lower()
Lower(s) == [i \in 1..Len(s) |-> LowerChar(s[i])]

\* c.isalnum()
IsAlnum(c) == c \in AlnumSet

\* c.isspace(), the \s of the regular expressions
IsSpace(c) == c = " "

RECURSIVE AlnumOnly(_)
\* ''.join(c for c in s if c.isalnum())
AlnumOnly(s) ==
    IF s = <<>> THEN <<>>
    ELSE IF IsAlnum(Head(s)) THEN <<Head(s)>> \o AlnumOnly(Tail(s))
         ELSE AlnumOnly(Tail(s))

canonicalize(name) == AlnumOnly(Lower(name))

RECURSIVE LStrip(_)
LStrip(s) == IF s # <<>> /\ IsSpace(Head(s)) THEN LStrip(Tail(s)) ELSE s

RECURSIVE RStrip(_)
RStrip(s) ==
    IF s # <<>> /\ IsSpace(s[Len(s)]) THEN RStrip(SubSeq(s, 1, Len(s) - 1)) ELSE s

\* s.strip()
Strip(s) == RStrip(LStrip(s))

RECURSIVE RStripChar(_, _)
\* s.rstrip(c)
RStripChar(s, c) ==
    IF s # <<>> /\ s[Len(s)] = c THEN RStripChar(SubSeq(s, 1, Len(s) - 1), c) ELSE s

\* s[p:].startswith(w), p counted from 1
StartsWithAt(s, p, w) ==
    /\ p + Len(w) - 1 <= Len(s)
    /\ \A i \in 1..Len(w) : s[p + i - 1] = w[i]

\* w in s
Contains(s, w) == \E p \in 1..(Len(s) + 1) : StartsWithAt(s, p, w)

RECURSIVE Split(_, _)
\* s.split(sep) for a one-character separator
Split(s, sep) ==
    IF \E i \in 1..Len(s) : s[i] = sep
    THEN LET i == CHOOSE j \in 1..Len(s) :
                      s[j] = sep /\ \A k \in 1..(j - 1) : s[k] # sep
         IN <<SubSeq(s, 1, i - 1)>> \o Split(SubSeq(s, i + 1, Len(s)), sep)
    ELSE <<s>>

RECURSIVE Join(_, _)
\* sep.join(parts)
Join(parts, sep) ==
    IF parts = <<>> THEN <<>>
    ELSE IF Len(parts) = 1 THEN parts[1]
         ELSE parts[1] \o sep \o Join(Tail(parts), sep)

\* [p.strip() for p in s.split(",") if p.strip()]
RECURSIVE StripNonEmpty(_)
StripNonEmpty(parts) ==
    IF parts = <<>> THEN <<>>
    ELSE IF Strip(Head(parts)) # <<>>
         THEN <<Strip(Head(parts))>> \o StripNonEmpty(Tail(parts))
         ELSE StripNonEmpty(Tail(parts))

\* a < b for str
RECURSIVE TextLess(_, _)
TextLess(a, b) ==
    IF b = <<>> THEN FALSE
    ELSE IF a = <<>> THEN TRUE
    ELSE IF Head(a) = Head(b) THEN TextLess(Tail(a), Tail(b))
    ELSE CharCode(Head(a)) < CharCode(Head(b))

-----------------------------------------------------------------------------
(* Arithmetic *)

Min(a, b) == IF a < b THEN a ELSE b
Max(a, b) == IF a > b THEN a ELSE b

\* round(n / d) for d > 0: Python 3 rounds a half to the even neighbour.  The
\* quotient is taken exactly; the float quotient of the code rounds the same way
\* for the merged ratings, and for the win percentages while gamesPlayed < 40.
RoundDiv(n, d) ==
    LET q == n \div d
        r == n % d
    IN IF 2 * r > d THEN q + 1
       ELSE IF 2 * r = d THEN (IF q % 2 = 1 THEN q + 1 ELSE q)
       ELSE q

\* Floats are fixed-point numbers with six decimals: x is held as x * SCALE.
SCALE == 10 ^ 6

\* round(10 ** (r / 400) * 10 ** 5) for r = 0..400, at index r + 1
Pow10Table ==
  <<
     100000, 100577, 101158, 101742, 102329, 102920, 103514, 104112, 104713, 105317,
     105925, 106537, 107152, 107771, 108393, 109018, 109648, 110281, 110917, 111558,
     112202, 112850, 113501, 114156, 114815, 115478, 116145, 116815, 117490, 118168,
     118850, 119536, 120226, 120921, 121619, 122321, 123027, 123737, 124451, 125170,
     125893, 126619, 127350, 128086, 128825, 129569, 130317, 131069, 131826, 132587,
     133352, 134122, 134896, 135675, 136458, 137246, 138038, 138835, 139637, 140443,
     141254, 142069, 142889, 143714, 144544, 145378, 146218, 147062, 147911, 148765,
     149624, 150487, 151356, 152230, 153109, 153993, 154882, 155776, 156675, 157580,
     158489, 159404, 160325, 161250, 162181, 163117, 164059, 165006, 165959, 166917,
     167880, 168850, 169824, 170805, 171791, 172783, 173780, 174783, 175792, 176807,
     177828, 178855, 179887, 180926, 181970, 183021, 184077, 185140, 186209, 187284,
     188365, 189452, 190546, 191646, 192752, 193865, 194984, 196110, 197242, 198381,
     199526, 200678, 201837, 203002, 204174, 205353, 206538, 207730, 208930, 210136,
     211349, 212569, 213796, 215030, 216272, 217520, 218776, 220039, 221309, 222587,
     223872, 225165, 226464, 227772, 229087, 230409, 231739, 233077, 234423, 235776,
     237137, 238506, 239883, 241268, 242661, 244062, 245471, 246888, 248313, 249747,
     251189, 252639, 254097, 255564, 257040, 258523, 260016, 261517, 263027, 264545,
     266073, 267609, 269153, 270707, 272270, 273842, 275423, 277013, 278612, 280221,
     281838, 283465, 285102, 286748, 288403, 290068, 291743, 293427, 295121, 296825,
     298538, 300262, 301995, 303739, 305492, 307256, 309030, 310814, 312608, 314413,
     316228, 318053, 319890, 321736, 323594, 325462, 327341, 329230, 331131, 333043,
     334965, 336899, 338844, 340800, 342768, 344747, 346737, 348739, 350752, 352777,
     354813, 356862, 358922, 360994, 363078, 365174, 367282, 369403, 371535, 373680,
     375837, 378007, 380189, 382384, 384592, 386812, 389045, 391291, 393550, 395822,
     398107, 400405, 402717, 405042, 407380, 409732, 412098, 414477, 416869, 419276,
     421697, 424131, 426580, 429042, 431519, 434010, 436516, 439036, 441570, 444120,
     446684, 449262, 451856, 454465, 457088, 459727, 462381, 465050, 467735, 470435,
     473151, 475883, 478630, 481393, 484172, 486968, 489779, 492606, 495450, 498310,
     501187, 504081, 506991, 509918, 512861, 515822, 518800, 521795, 524807, 527837,
     530884, 533949, 537032, 540132, 543250, 546387, 549541, 552713, 555904, 559114,
     562341, 565588, 568853, 572137, 575440, 578762, 582103, 585464, 588844, 592243,
     595662, 599101, 602560, 606038, 609537, 613056, 616595, 620155, 623735, 627336,
     630957, 634600, 638263, 641948, 645654, 649382, 653131, 656901, 660693, 664508,
     668344, 672202, 676083, 679986, 683912, 687860, 691831, 695825, 699842, 703882,
     707946, 712033, 716143, 720278, 724436, 728618, 732825, 737055, 741310, 745590,
     749894, 754223, 758578, 762957, 767361, 771792, 776247, 780728, 785236, 789769,
     794328, 798914, 803526, 808165, 812831, 817523, 822243, 826990, 831764, 836566,
     841395, 846253, 851138, 856052, 860994, 865964, 870964, 875992, 881049, 886135,
     891251, 896396, 901571, 906776, 912011, 917276, 922571, 927897, 933254, 938642,
     944061, 949511, 954993, 960506, 966051, 971628, 977237, 982879, 988553, 994260,
     1000000  >>

\* 1 / (1 + 10 ** x) * SCALE for x = (n / m) / 400 >= 0.  10 ** x is
\* 10 ** q * 10 ** (r / 400) with the second factor read from Pow10Table
\* (interpolated for the fraction of n / m); the quotient is taken in two
\* steps of three decimals to stay within 32-bit integers.
ExpectedNonNeg(n, m) ==
    LET fl == n \div m
        fr == n % m
        q == fl \div 400
        r == fl % 400
        t == Pow10Table[r + 1] + ((Pow10Table[r + 2] - Pow10Table[r + 1]) * fr) \div m
        u == IF q <= 5 THEN 10 ^ (5 - q) ELSE 0
        d == u + t
        a == (u * 1000) \div d
        rem == (u * 1000) % d
        b == (rem * 1000 + d \div 2) \div d
    IN a * 1000 + b

\* line 494
adjust_opponent_rating(opposition_rating, curr_rating) == opposition_rating

\* 1 / (1 + math.pow(10, (opp - curr) / 400)) * SCALE, where the opponent
\* rating is the float oppTotal / oppLen (an average over a roster).
Expected(curr_rating, oppTotal, oppLen) ==
    LET n == adjust_opponent_rating(oppTotal, curr_rating) - curr_rating * oppLen
    IN IF n >= 0 THEN ExpectedNonNeg(n, oppLen)
       ELSE SCALE - ExpectedNonNeg(-n, oppLen)

\* The upper bounds float('inf') of the last band is InfThreshold.
InfThreshold == -1
RATING_PROTECTION_THRESHOLDS ==
    << <<150, 34>>, <<200, 21>>, <<400, 13>>, <<850, 8>>, <<1234, 5>>,
       <<1650, 3>>, <<2222, 2>>, <<2468, 1>>, <<2666, 0>>, <<2900, -1>>,
       <<InfThreshold, -2>> >>

\* lines 506-510 without the break: the last band with curr_rating <= threshold
ProtectionAdjustmentNoBreak(curr_rating) ==
    RATING_PROTECTION_THRESHOLDS[Len(RATING_PROTECTION_THRESHOLDS)][2]

\* lines 506-510: the adjustment of the first band with curr_rating <= threshold
ProtectionAdjustment(curr_rating) ==
    LET hit(i) == \/ RATING_PROTECTION_THRESHOLDS[i][1] = InfThreshold
                  \/ curr_rating <= RATING_PROTECTION_THRESHOLDS[i][1]
        i == CHOOSE j \in 1..Len(RATING_PROTECTION_THRESHOLDS) :
                 hit(j) /\ \A k \in 1..(j - 1) : ~hit(k)
    IN RATING_PROTECTION_THRESHOLDS[i][2]

\* lines 516-517 left out: the change of a loss is not capped
LossClampMissing(score, change) == change

\* lines 516-517: on a loss the change is capped at 0
LossClamp(score, change) == IF score = 0 THEN Min(change, 0) ELSE change

\* round(curr + change / SCALE)
RoundSum(curr, change) ==
    LET base == curr + change \div SCALE
        f == change % SCALE
    IN IF 2 * f > SCALE THEN base + 1
       ELSE IF 2 * f = SCALE THEN (IF base % 2 = 1 THEN base + 1 ELSE base)
       ELSE base

\* line 526
ClampRating(r) == Max(Min(r, RATING_MAX), RATING_MIN)

\* update_rating(curr_rating, score, oppTotal / oppLen, mult4 / 4): the new
\* rating and the change (times SCALE).  score is 0 or 1.
update_rating(curr_rating, score, oppTotal, oppLen, mult4) ==
    LET expected == Expected(curr_rating, oppTotal, oppLen)
        raw == ((mult4 * K_FACTOR) \div 4) * (score * SCALE - expected)
        change == LossClamp(score, raw + ProtectionAdjustment(curr_rating) * SCALE)
    IN IF change < 0 /\ curr_rating <= RATING_MIN
       THEN [new_rating |-> RATING_MIN, change |-> 0]
       ELSE [new_rating |-> ClampRating(RoundSum(curr_rating, change)),
             change |-> change]

-----------------------------------------------------------------------------
(* Ranks and records *)

\* lines 103-107
get_computed_rank(score) ==
    IF \E i \in 1..Len(RANK_THRESHOLDS) : score >= RANK_THRESHOLDS[i][1]
    THEN LET i == CHOOSE j \in 1..Len(RANK_THRESHOLDS) :
                      /\ score >= RANK_THRESHOLDS[j][1]
                      /\ \A k \in 1..(j - 1) : score < RANK_THRESHOLDS[k][1]
         IN RANK_THRESHOLDS[i][2]
    ELSE Iron

\* lines 109-111
update_player_avg(rec) ==
    [rec EXCEPT !.avg = RoundDiv(rec.offense + rec.defense, 2)]

\* lines 119-125 without the comparison: the computed rank replaces the kept one
KeepOrRaiseAlwaysNew(current, new_val) ==
    IF current \in {HIDDEN_RANK, SPECIAL_IM} THEN current ELSE new_val

\* lines 119-125: one field of update_player_ranks
KeepOrRaise(current, new_val) ==
    IF current \in {HIDDEN_RANK, SPECIAL_IM} THEN current
    ELSE IF RANK_ORDER[new_val] > RankOrderGet(current, 1) THEN new_val
    ELSE current

\* lines 113-125
update_player_ranks(rec) ==
    [rec EXCEPT !.rank_o = KeepOrRaise(rec.rank_o, get_computed_rank(rec.offense)),
                !.rank_d = KeepOrRaise(rec.rank_d, get_computed_rank(rec.defense)),
                !.rank_a = KeepOrRaise(rec.rank_a, get_computed_rank(rec.avg))]

\* lines 166-167
choose_rank(old_rank, new_rank) ==
    IF RankOrderGet(new_rank, 0) > RankOrderGet(old_rank, 0) THEN new_rank ELSE old_rank

\* None, and the empty string: both are false in "rank_d if rank_d else ..."
None == <<>>

\* lines 158-163 with the quotient truncated instead of rounded
MergedRatingTruncated(oldRating, oldPlayed, rating, played) ==
    IF oldPlayed + played > 0
    THEN (oldRating * oldPlayed + rating * played) \div (oldPlayed + played)
    ELSE rating

\* lines 158-163: the merged rating
MergedRating(oldRating, oldPlayed, rating, played) ==
    IF oldPlayed + played > 0
    THEN RoundDiv(oldRating * oldPlayed + rating * played, oldPlayed + played)
    ELSE rating

\* merge_record(key, new_display, off, deff, played, wins, rank_d, rank_o, rank_a)
\* as the record it stores under key, given the record old found there.
merge_record(old, off, deff, played, wins, rank_d, rank_o, rank_a) ==
    LET new_off == MergedRating(old.offense, old.played, off, played)
        new_def == MergedRating(old.defense, old.played, deff, played)
        new_avg == RoundDiv(new_off + new_def, 2)
    IN [display |-> old.display,
        offense |-> new_off,
        defense |-> new_def,
        played |-> old.played + played,
        wins |-> old.wins + wins,
        avg |-> new_avg,
        rank_d |-> choose_rank(old.rank_d,
                       IF rank_d # None THEN rank_d ELSE get_computed_rank(new_def)),
        rank_o |-> choose_rank(old.rank_o,
                       IF rank_o # None THEN rank_o ELSE get_computed_rank(new_off)),
        rank_a |-> choose_rank(old.rank_a,
                       IF rank_a # None THEN rank_a ELSE get_computed_rank(new_avg))]

\* "zhong" in key, lines 195 and 240
IsHiddenIdentity(key) == Contains(key, <<"z", "h", "o", "n", "g">>)

\* lines 196-198
HideRanks(rec) ==
    [rec EXCEPT !.rank_d = HIDDEN_RANK, !.rank_o = HIDDEN_RANK, !.rank_a = HIDDEN_RANK]

\* lines 184-198: the record get_or_create_player stores for a new name
NewPlayer(name) ==
    LET rec == [display |-> name,
                offense |-> RATING_MIN,
                defense |-> RATING_MIN,
                played |-> 0,
                wins |-> 0,
                avg |-> RATING_MIN,
                rank_d |-> get_computed_rank(RATING_MIN),
                rank_o |-> get_computed_rank(RATING_MIN),
                rank_a |-> get_computed_rank(RATING_MIN)]
    IN IF IsHiddenIdentity(canonicalize(name)) THEN HideRanks(rec) ELSE rec

\* players after get_or_create_player(name), lines 181-199
get_or_create_player(reg, name) ==
    IF canonicalize(name) \in DOMAIN reg THEN reg
    ELSE (canonicalize(name) :> NewPlayer(name)) @@ reg

-----------------------------------------------------------------------------
(* The snapshot file: decimal text, load_data and save_data *)

\* s.isdigit()
IsDigits(s) == s # <<>> /\ \A i \in 1..Len(s) : s[i] \in DigitSet

\* whether int(s) returns rather than raising ValueError (s is stripped)
IsInt(s) ==
    \/ IsDigits(s)
    \/ s # <<>> /\ Head(s) = "-" /\ IsDigits(Tail(s))

RECURSIVE DigitsValue(_)
DigitsValue(s) ==
    IF s = <<>> THEN 0
    ELSE 10 * DigitsValue(SubSeq(s, 1, Len(s) - 1)) + (IndexIn(DigitChars, s[Len(s)]) - 1)

\* int(s)
ParseInt(s) == IF Head(s) = "-" THEN 0 - DigitsValue(Tail(s)) ELSE DigitsValue(s)

RECURSIVE NatText(_)
NatText(n) ==
    IF n < 10 THEN <<DigitChars[n + 1]>>
    ELSE NatText(n \div 10) \o <<DigitChars[(n % 10) + 1]>>

\* str(n), the f-string form of an int
FormatInt(n) == IF n < 0 THEN <<"-">> \o NatText(0 - n) ELSE NatText(n)

\* parts[i] if len(parts) >= i else None (i counted from 1)
PartOrNone(parts, i) == IF Len(parts) >= i THEN parts[i] ELSE None

\* rank if rank else get_computed_rank(score)
RankOrComputed(rank, score) == IF rank # None THEN rank ELSE get_computed_rank(score)

\* line 221 with the win percentage taken for a fraction
WinsFromRateAsFraction(win_rate, played) ==
    IF played > 0 THEN win_rate * played ELSE 0

\* line 221
WinsFromRate(win_rate, played) ==
    IF played > 0 THEN RoundDiv(win_rate * played, 100) ELSE 0

\* The percentage cut off instead of rounded
WinRateTruncated(wins, played) == IF played > 0 THEN (wins * 100) \div played ELSE 0

\* line 254
WinRate(wins, played) == IF played > 0 THEN RoundDiv(wins * 100, played) ELSE 0

\* lines 206-243: the registry after one line of the file
LoadLine(reg, rawLine) ==
    LET line == RStripChar(Strip(rawLine), ".")
        raw == Split(line, ",")
        parts == [i \in 1..Len(raw) |-> Strip(raw[i])]
    IN IF line = <<>> THEN reg
       ELSE IF Len(parts) < 5 THEN reg
       ELSE IF ~(IsInt(parts[2]) /\ IsInt(parts[3]) /\ IsInt(parts[4]) /\ IsInt(parts[5]))
       THEN reg
       ELSE
         LET disp == parts[1]
             canon == canonicalize(disp)
             off == ParseInt(parts[2])
             deff == ParseInt(parts[3])
             played == ParseInt(parts[4])
             win_rate == ParseInt(parts[5])
             wins == WinsFromRate(win_rate, played)
             avg == IF Len(parts) >= 6 /\ IsDigits(parts[6]) THEN ParseInt(parts[6])
                    ELSE RoundDiv(off + deff, 2)
             rank_d == PartOrNone(parts, 7)
             rank_o == PartOrNone(parts, 8)
             rank_a == PartOrNone(parts, 9)
             rec == [display |-> disp,
                     offense |-> off,
                     defense |-> deff,
                     played |-> played,
                     wins |-> wins,
                     avg |-> avg,
                     rank_d |-> RankOrComputed(rank_d, deff),
                     rank_o |-> RankOrComputed(rank_o, off),
                     rank_a |-> RankOrComputed(rank_a, avg)]
         IN IF canon \in DOMAIN reg
            THEN [reg EXCEPT ![canon] =
                     merge_record(reg[canon], off, deff, played, wins, rank_d, rank_o, rank_a)]
            ELSE (canon :> (IF IsHiddenIdentity(canon) THEN HideRanks(rec) ELSE rec)) @@ reg

RECURSIVE LoadLines(_, _)
LoadLines(reg, lines) ==
    IF lines = <<>> THEN reg
    ELSE LoadLines(LoadLine(reg, Head(lines)), Tail(lines))

\* load_data(): the registry read from the file into the empty registry.  A
\* missing file is the file without lines: load_data leaves players empty for both.
load_data(lines) == LoadLines(<<>>, lines)

\* lines 246-248: every record with its average and ranks refreshed
Refreshed(reg) ==
    [k \in DOMAIN reg |-> update_player_ranks(update_player_avg(reg[k]))]

\* line 249: the sort key (-avg, display)
SortsBefore(a, b) ==
    \/ a.avg > b.avg
    \/ a.avg = b.avg /\ TextLess(a.display, b.display)

\* line 255
FormatLine(data) ==
    Join(<<data.display,
           FormatInt(data.offense),
           FormatInt(data.defense),
           FormatInt(data.played),
           FormatInt(WinRate(data.wins, data.played)),
           FormatInt(data.avg),
           data.rank_d,
           data.rank_o,
           data.rank_a>>, <<",", " ">>) \o <<".">>

RECURSIVE SortedLines(_, _)
\* lines 249-256: the lines for the records under keys, in sorted order
SortedLines(reg, keys) ==
    IF keys = {} THEN <<>>
    ELSE LET first == CHOOSE k \in keys :
                          \A j \in keys \ {k} : SortsBefore(reg[k], reg[j])
         IN <<FormatLine(reg[first])>> \o SortedLines(reg, keys \ {first})

\* save_data(): the file it writes from the refreshed registry
FileOf(reg) == SortedLines(reg, DOMAIN reg)

-----------------------------------------------------------------------------
(* process_game *)

\* line 312: the alternatives of the pattern, in its order
WinTypeAlternatives ==
    <<<<"w", "i", "n">>, <<"s", "m", "a", "l", "l", "w", "i", "n">>, <<"c", "l", "o", "s", "e", "w", "i", "n">>, <<"b", "i", "g", "w", "i", "n">>, <<"p", "e", "r", "f", "e", "c", "t", "w", "i", "n">>>>

\* whether an alternative matches (ignoring case) at position p of command
AlternativeAt(command, p) ==
    \E i \in 1..Len(WinTypeAlternatives) :
        StartsWithAt(Lower(command), p, WinTypeAlternatives[i])

\* lines 312-317: re.match(r"^(.*?)\s*(win|smallwin|closewin|bigwin|perfectwin)\s*(.*?)$").
\* The lazy first group makes the leftmost position at which an alternative
\* matches the win type, whatever surrounds it; the groups are
\* (team1_str, win_type, team2_str), and NoMatch when no alternative occurs.
NoMatch == <<>>
GamePattern(command) ==
    IF ~\E p \in 1..Len(command) : AlternativeAt(command, p) THEN NoMatch
    ELSE LET p == CHOOSE q \in 1..Len(command) :
                      AlternativeAt(command, q)
                      /\ \A k \in 1..(q - 1) : ~AlternativeAt(command, k)
             i == CHOOSE j \in 1..Len(WinTypeAlternatives) :
                      /\ StartsWithAt(Lower(command), p, WinTypeAlternatives[j])
                      /\ \A k \in 1..(j - 1) :
                            ~StartsWithAt(Lower(command), p, WinTypeAlternatives[k])
             n == Len(WinTypeAlternatives[i])
         IN <<RStrip(SubSeq(command, 1, p - 1)),
              SubSeq(command, p, p + n - 1),
              LStrip(SubSeq(command, p + n, Len(command)))>>

\* lines 301-309: [offense_players, defense_players]
parse_team(team_str) ==
    IF \E i \in 1..Len(team_str) : team_str[i] = ";"
    THEN LET i == CHOOSE j \in 1..Len(team_str) :
                      team_str[j] = ";" /\ \A k \in 1..(j - 1) : team_str[k] # ";"
         IN <<StripNonEmpty(Split(SubSeq(team_str, 1, i - 1), ",")),
              StripNonEmpty(Split(SubSeq(team_str, i + 1, Len(team_str)), ","))>>
    ELSE <<StripNonEmpty(Split(team_str, ",")), <<>>>>

RECURSIVE CreateAll(_, _)
\* lines 328-329
CreateAll(reg, names) ==
    IF names = <<>> THEN reg
    ELSE CreateAll(get_or_create_player(reg, Head(names)), Tail(names))

RECURSIVE TotalRating(_, _, _)
TotalRating(reg, names, role) ==
    IF names = <<>> THEN 0
    ELSE reg[canonicalize(Head(names))][role] + TotalRating(reg, Tail(names), role)

\* lines 331-335: the average total / len as the pair [total, len]; None is
\* the pair with len = 0
get_average_rating(reg, names, role) ==
    [total |-> TotalRating(reg, names, role), len |-> Len(names)]

IsNone(average) == average.len = 0

\* lines 338-341: the average of the first roster if it is not empty, else of the second
OpponentAverage(reg, firstNames, firstRole, otherNames, otherRole) ==
    IF firstNames # <<>> THEN get_average_rating(reg, firstNames, firstRole)
    ELSE get_average_rating(reg, otherNames, otherRole)

\* lines 346-370: calculate_expected_win_rate raises TypeError when it is given
\* the opponent average None, which is when a roster meets an empty team.
ExpectedRatesRaise(team1_off, team1_def, team2_off, team2_def) ==
    \/ team1_off \o team1_def # <<>> /\ team2_off \o team2_def = <<>>
    \/ team2_off \o team2_def # <<>> /\ team1_off \o team1_def = <<>>

\* lines 382-387 (and 390-395, 398-402, 405-409): one participant's update
UpdateParticipant(rec, role, score, opp, mult4) ==
    LET res == update_rating(rec[role], score, opp.total, opp.len, mult4)
    IN [rec EXCEPT ![role] = res.new_rating,
                   !.played = @ + 1,
                   !.wins = @ + score]

RECURSIVE UpdateRoster(_, _, _, _, _, _)
\* one of the four loops of lines 381-409
UpdateRoster(reg, names, role, score, opp, mult4) ==
    IF names = <<>> THEN reg
    ELSE LET key == canonicalize(Head(names))
         IN UpdateRoster(
                [reg EXCEPT ![key] = UpdateParticipant(reg[key], role, score, opp, mult4)],
                Tail(names), role, score, opp, mult4)

\* lines 323-409, after the pattern has matched: the registry before save_data,
\* or the registry as it stands when the exception is raised
GameRegistry(reg, team1_str, win_type, team2_str) ==
    LET mult4 == WIN_TYPE_MULTIPLIERS[win_type]
        t1 == parse_team(team1_str)
        t2 == parse_team(team2_str)
        created == CreateAll(reg, t1[1] \o t1[2] \o t2[1] \o t2[2])
        opp_for_team1 == OpponentAverage(created, t2[2], "defense", t2[1], "offense")
        opp_off_team1 == OpponentAverage(created, t2[1], "offense", t2[2], "defense")
        opp_for_team2 == OpponentAverage(created, t1[2], "defense", t1[1], "offense")
        opp_off_team2 == OpponentAverage(created, t1[1], "offense", t1[2], "defense")
    IN IF ExpectedRatesRaise(t1[1], t1[2], t2[1], t2[2]) THEN created
       ELSE UpdateRoster(
              UpdateRoster(
                UpdateRoster(
                  UpdateRoster(created, t1[1], "offense", 1, opp_for_team1, mult4),
                  t1[2], "defense", 1, opp_off_team1, mult4),
                t2[1], "offense", 0, opp_for_team2, mult4),
              t2[2], "defense", 0, opp_off_team2, mult4)

\* process_game(command): how it ends, and the registry and the file it leaves
process_game(reg, lines, command) ==
    LET m == GamePattern(command)
    IN IF m = NoMatch
       THEN [result |-> "not_recognized", players |-> reg, file |-> lines]
       ELSE IF Lower(m[2]) \notin DOMAIN WIN_TYPE_MULTIPLIERS
       THEN [result |-> "invalid_win_type", players |-> reg, file |-> lines]
       ELSE LET t1 == parse_team(m[1])
                t2 == parse_team(m[3])
                after == GameRegistry(reg, m[1], Lower(m[2]), m[3])
            IN IF ExpectedRatesRaise(t1[1], t1[2], t2[1], t2[2])
               THEN [result |-> "raised", players |-> after, file |-> lines]
               ELSE [result |-> "saved",
                     players |-> Refreshed(after),
                     file |-> FileOf(Refreshed(after))]

-----------------------------------------------------------------------------
(* process_combine_command *)

\* "\s+to\s+" at position p: "to" (ignoring case) between white space
ToAt(command, p) ==
    /\ p >= 2 /\ p + 2 <= Len(command)
    /\ IsSpace(command[p - 1])
    /\ StartsWithAt(Lower(command), p, <<"t", "o">>)
    /\ IsSpace(command[p + 2])

\* lines 445-451: re.match(r"^combine\s+(.*?)\s+to\s+(.*?)\.?$"): the groups
\* (src_name, dest_name) stripped, or NoMatch.  The lazy first group ends before
\* the leftmost " to " that leaves white space after "combine"; the lazy second
\* group leaves one final period to the optional "\.".
CombinePattern(command) ==
    LET first == Len(<<"c", "o", "m", "b", "i", "n", "e">>) + 1
        ok(p) == ToAt(command, p) /\ p - 1 > first
    IN IF ~(/\ StartsWithAt(Lower(command), 1, <<"c", "o", "m", "b", "i", "n", "e">>)
            /\ Len(command) >= first /\ IsSpace(command[first])
            /\ \E p \in 1..Len(command) : ok(p))
       THEN NoMatch
       ELSE LET p == CHOOSE q \in 1..Len(command) :
                         ok(q) /\ \A k \in 1..(q - 1) : ~ok(k)
                rest == SubSeq(command, p + 3, Len(command))
                dest == IF rest # <<>> /\ rest[Len(rest)] = "."
                        THEN SubSeq(rest, 1, Len(rest) - 1) ELSE rest
            IN <<Strip(SubSeq(command, first + 1, p - 2)), Strip(dest)>>

\* process_combine_command(command): how it ends and the registry it leaves.
\* The merged record is stored under dest_key and then src_key is deleted.
process_combine_command(reg, command) ==
    LET m == CombinePattern(command)
    IN IF m = NoMatch THEN [result |-> "invalid_format", players |-> reg]
       ELSE LET src_key == canonicalize(m[1])
                dest_key == canonicalize(m[2])
            IN IF src_key \notin DOMAIN reg
               THEN [result |-> "src_not_found", players |-> reg]
               ELSE IF dest_key \notin DOMAIN reg
               THEN [result |-> "dest_not_found", players |-> reg]
               ELSE LET merged == [reg EXCEPT ![dest_key] =
                                      merge_record(reg[dest_key],
                                                   reg[src_key].offense,
                                                   reg[src_key].defense,
                                                   reg[src_key].played,
                                                   reg[src_key].wins,
                                                   None, None, None)]
                    IN [result |-> "combined",
                        players |-> [k \in DOMAIN merged \ {src_key} |-> merged[k]]]

-----------------------------------------------------------------------------
(* print_players, and the dispatch of main *)

RECURSIVE Words(_)
\* s.split(): the words between runs of white space
Words(s) ==
    LET t == LStrip(s)
    IN IF t = <<>> THEN <<>>
       ELSE IF \E i \in 1..Len(t) : IsSpace(t[i])
       THEN LET i == CHOOSE j \in 1..Len(t) :
                         IsSpace(t[j]) /\ \A k \in 1..(j - 1) : ~IsSpace(t[k])
            IN <<SubSeq(t, 1, i - 1)>> \o Words(SubSeq(t, i + 1, Len(t)))
       ELSE <<t>>

\* line 267
ValidRanks == {RANK_THRESHOLDS[i][2] : i \in 1..Len(RANK_THRESHOLDS)}

\* lines 258-295 and 541-547: how the pp command ends.  With a valid filter,
\* line 278 looks every rank that is not a sentinel up in RANK_ORDER and
\* raises KeyError for a rank token that is not one of its keys.
print_players(reg, cmd) ==
    LET parts == Words(cmd)
    IN IF DOMAIN reg = {} THEN "no_data"
       ELSE IF Len(parts) = 1 THEN "listed"
       ELSE IF Lower(parts[2]) \notin ValidRanks THEN "invalid_rank"
       ELSE IF \E k \in DOMAIN reg :
                  \E r \in {reg[k].rank_o, reg[k].rank_d, reg[k].rank_a} :
                      r \notin {HIDDEN_RANK, SPECIAL_IM} /\ r \notin DOMAIN RANK_ORDER
       THEN "raised"
       ELSE "listed"

\* lines 537-555: the handler main runs for the command
Dispatch(cmd) ==
    LET c == Lower(cmd)
    IN IF c = <<"e", "x", "i", "t">> THEN "exit"
       ELSE IF StartsWithAt(c, 1, <<"p", "p">>) THEN "pp"
       ELSE IF c = <<"b", "e", "s", "t">> THEN "best"
       ELSE IF StartsWithAt(c, 1, <<"c", "o", "m", "b", "i", "n", "e">>) THEN "combine"
       ELSE IF c = <<"n", "a", "m", "e">> THEN "name"
       ELSE "game"

-----------------------------------------------------------------------------
(* The inputs of the model *)

\* The number of commands the loop reads.
MaxSteps == 3

\* The snapshots elo.txt may hold at startup.
SnapshotEmpty == <<>>

SnapshotDuplicate ==
    <<<<"J", "o", "h", "n", " ", "S", "m", "i", "t", "h", ",", " ", "2", "0", "0", ",", " ", "2", "0", "0", ",", " ", "1", "0", ",", " ", "5", "0", ".">>,
      <<"j", "o", "h", "n", "s", "m", "i", "t", "h", ",", " ", "3", "0", "0", ",", " ", "3", "0", "0", ",", " ", "5", ",", " ", "0", ".">>>>

SnapshotRanked ==
    <<<<"a", "l", ",", " ", "2", "9", "9", "0", ",", " ", "8", "6", "0", ",", " ", "4", ",", " ", "7", "5", ",", " ", "1", "9", "2", "5", ",", " ", "p", "l", "a", "t", ",", " ", "g", "r", "a", "n", "d", "-", "m", "a", "s", "t", "e", "r", ",", " ", "e", "m", "e", "r", "a", "l", "d", ".">>,
      <<"b", "o", ",", " ", "8", "5", "5", ",", " ", "1", "3", "0", ",", " ", "3", ",", " ", "3", "3", ",", " ", "4", "9", "2", ",", " ", "s", "t", "e", "e", "l", ",", " ", "p", "l", "a", "t", ",", " ", "g", "o", "l", "d", ".">>,
      <<"C", "y", ",", " ", "1", "4", "0", ",", " ", "2", "4", "0", "0", ",", " ", "2", ",", " ", "5", "0", ",", " ", "1", "2", "7", "0", ",", " ", "i", "m", ",", " ", "s", "t", "e", "e", "l", ",", " ", "j", "a", "d", "e", ".">>>>

SnapshotForeign ==
    <<<<"a", "l", ",", " ", "5", "0", ",", " ", "3", "5", "0", "0", ",", " ", "0", ",", " ", "0", ".">>,
      <<"b", "r", "o", "k", "e", "n", " ", "l", "i", "n", "e", ".">>,
      <<"b", "o", ",", " ", "a", "b", "c", ",", " ", "1", "0", "0", ",", " ", "1", ",", " ", "0", ".">>,
      <<"Z", "h", "o", "n", "g", ",", " ", "7", "0", "0", ",", " ", "7", "0", "0", ",", " ", "6", ",", " ", "5", "0", ".">>>>

InitFiles == {SnapshotEmpty, SnapshotDuplicate, SnapshotRanked, SnapshotForeign}

\* The lines the user may type.
Commands ==
    {<<"a", "l", " ", "w", "i", "n", " ", "b", "o">>,
     <<"b", "o", " ", "b", "i", "g", "w", "i", "n", " ", "c", "y", ";", " ", "a", "l">>,
     <<"b", "o", ";", " ", "A", "l", " ", "c", "l", "o", "s", "e", "w", "i", "n", " ", "a", "l", ",", " ", "z", "h", "o", "n", "g", ";", " ", "b", "o">>,
     <<"a", "l", " ", "h", "u", "g", "e", "w", "i", "n", " ", "b", "o">>,
     <<"a", "l", " ", "w", "i", "n">>,
     <<"w", "i", "n", " ", "b", "o">>,
     <<"a", "l", " ", "b", "e", "a", "t", "s", " ", "b", "o">>,
     <<"c", "o", "m", "b", "i", "n", "e", " ", "a", "l", " ", "t", "o", " ", "b", "o">>,
     <<"c", "o", "m", "b", "i", "n", "e", " ", "b", "o", " ", "t", "o", " ", "c", "y">>,
     <<"c", "o", "m", "b", "i", "n", "e", " ", "A", "L", " ", "t", "o", " ", "a", "l", ".">>,
     <<"c", "o", "m", "b", "i", "n", "e", " ", "d", "a", "n", " ", "t", "o", " ", "b", "o">>,
     <<"c", "o", "m", "b", "i", "n", "e", " ", "a", "l", " ", "b", "o">>,
     <<"p", "p">>,
     <<"p", "p", " ", "g", "o", "l", "d">>,
     <<"b", "e", "s", "t">>,
     <<"n", "a", "m", "e">>,
     <<"e", "x", "i", "t">>}

-----------------------------------------------------------------------------
(* The program *)

NoCall == [fn |-> "none"]

Init ==
    /\ players = <<>>
    /\ file \in InitFiles
    /\ pc = "start"
    /\ steps = 0
    /\ last = [command |-> <<>>, handler |-> "none", result |-> "none"]
    /\ call = NoCall

\* line 532
LoadData ==
    /\ pc = "start"
    /\ players' = load_data(file)
    /\ pc' = "ready"
    /\ UNCHANGED <<file, steps, last, call>>

\* lines 536-555 for each line the user may type: the handler of input().strip()
HandlerOf == [cmd \in Commands |-> Dispatch(Strip(cmd))]

\* line 536: the loop reads a command which main hands to handler
Reads(cmd, handler) ==
    /\ pc = "ready"
    /\ steps < MaxSteps
    /\ HandlerOf[cmd] = handler
    /\ steps' = steps + 1
    /\ UNCHANGED call

\* lines 537-539
Exit ==
    \E cmd \in Commands :
        /\ Reads(cmd, "exit")
        /\ players' = Refreshed(players)
        /\ file' = FileOf(Refreshed(players))
        /\ pc' = "exited"
        /\ last' = [command |-> Strip(cmd), handler |-> "exit", result |-> "saved"]

\* lines 541-547
PrintPlayers ==
    \E cmd \in Commands :
        /\ Reads(cmd, "pp")
        /\ pc' = IF print_players(players, Strip(cmd)) = "raised" THEN "crashed" ELSE "ready"
        /\ last' = [command |-> Strip(cmd), handler |-> "pp",
                    result |-> print_players(players, Strip(cmd))]
        /\ UNCHANGED <<players, file>>

\* lines 548-549 and 413-434
Best ==
    \E cmd \in Commands :
        /\ Reads(cmd, "best")
        /\ last' = [command |-> Strip(cmd), handler |-> "best",
                    result |-> IF DOMAIN players = {} THEN "no_data" ELSE "listed"]
        /\ UNCHANGED <<players, file, pc>>

\* lines 552-553 and 474-492
Name ==
    \E cmd \in Commands :
        /\ Reads(cmd, "name")
        /\ last' = [command |-> Strip(cmd), handler |-> "name",
                    result |-> IF DOMAIN players = {} THEN "no_data" ELSE "listed"]
        /\ UNCHANGED <<players, file, pc>>

\* lines 550-551: process_combine_command does not call save_data
Combine ==
    \E cmd \in Commands :
        /\ Reads(cmd, "combine")
        /\ LET res == process_combine_command(players, Strip(cmd))
           IN /\ players' = res.players
              /\ last' = [command |-> Strip(cmd), handler |-> "combine",
                          result |-> res.result]
        /\ UNCHANGED <<file, pc>>

\* lines 554-555: an exception process_game raises ends main
Game ==
    \E cmd \in Commands :
        /\ Reads(cmd, "game")
        /\ LET res == process_game(players, file, Strip(cmd))
           IN /\ players' = res.players
              /\ file' = res.file
              /\ pc' = IF res.result = "raised" THEN "crashed" ELSE "ready"
              /\ last' = [command |-> Strip(cmd), handler |-> "game",
                          result |-> res.result]

Next ==
    \/ LoadData
    \/ Exit
    \/ PrintPlayers
    \/ Best
    \/ Name
    \/ Combine
    \/ Game

Spec == Init /\ [][Next]_vars

-----------------------------------------------------------------------------
(* The pure functions update_rating and merge_record on inputs of their own *)

\* How far around each threshold the current ratings are drawn.
Spread == 1

\* The largest roster an opponent average is taken over.
MaxRoster == 2

Thresholds ==
    {RATING_PROTECTION_THRESHOLDS[i][1] : i \in 1..(Len(RATING_PROTECTION_THRESHOLDS) - 1)}
    \cup {RANK_THRESHOLDS[i][1] : i \in 1..Len(RANK_THRESHOLDS)}
    \cup {RATING_MIN, RATING_MAX}

\* Current ratings: at and around every threshold of the two tables, and outside
\* [RATING_MIN, RATING_MAX]
CurrentRatings ==
    {t + d : t \in Thresholds, d \in (0 - Spread)..Spread} \cup {50, 3500}

\* The opponent average minus the current rating, in whole points
RatingGaps == {-2000, -400, -120, -1, 0, 1, 120, 400, 2000}

\* update_rating(curr, score, total / len, mult4 / 4): the average of len
\* ratings is a multiple of 1 / len
UpdateCalls ==
    {[fn |-> "update_rating", curr |-> c, score |-> s, total |-> (c + g) * n + (n - 1),
      len |-> n, mult4 |-> WIN_TYPE_MULTIPLIERS[w], done |-> FALSE, result |-> <<>>] :
        c \in CurrentRatings, g \in RatingGaps, n \in 1..MaxRoster, s \in {0, 1},
        w \in DOMAIN WIN_TYPE_MULTIPLIERS}

\* (offense, defense) pairs and (played, wins) pairs of the records merged
MergeRatings == {<<200, 200>>, <<300, 300>>, <<100, 2999>>, <<233, 150>>, <<1234, 851>>}
MergeGames == {<<0, 0>>, <<1, 1>>, <<2, 1>>, <<5, 0>>, <<10, 5>>}

MergeSources ==
    {[off |-> r[1], deff |-> r[2], played |-> g[1], wins |-> g[2]] :
        r \in MergeRatings, g \in MergeGames}

MergeDestination(s) ==
    [display |-> <<"B", "o">>, offense |-> s.off, defense |-> s.deff, played |-> s.played,
     wins |-> s.wins, avg |-> RoundDiv(s.off + s.deff, 2),
     rank_d |-> get_computed_rank(s.deff), rank_o |-> get_computed_rank(s.off),
     rank_a |-> get_computed_rank(RoundDiv(s.off + s.deff, 2))]

\* merge_record of a first source, and of a second one before or after it
MergeCalls ==
    {[fn |-> "merge_record", dest |-> MergeDestination(d), first |-> s,
      second |-> [off |-> 300, deff |-> 100, played |-> g[1], wins |-> g[2]],
      done |-> FALSE, result |-> <<>>] :
        d \in MergeSources, s \in MergeSources, g \in MergeGames}

MergeSource(old, s) ==
    merge_record(old, s.off, s.deff, s.played, s.wins, None, None, None)

InitCalls ==
    /\ players = <<>>
    /\ file = <<>>
    /\ pc = "call"
    /\ steps = 0
    /\ last = [command |-> <<>>, handler |-> "none", result |-> "none"]
    /\ \/ call \in UpdateCalls
       \/ call \in MergeCalls

CallUpdateRating ==
    /\ call.fn = "update_rating" /\ ~call.done
    /\ call' = [call EXCEPT
                   !.done = TRUE,
                   !.result = update_rating(call.curr, call.score, call.total,
                                            call.len, call.mult4)]
    /\ UNCHANGED <<players, file, pc, steps, last>>

CallMergeRecord ==
    /\ call.fn = "merge_record" /\ ~call.done
    /\ call' = [call EXCEPT
                   !.done = TRUE,
                   !.result = [once |-> MergeSource(call.dest, call.first),
                               both |-> MergeSource(MergeSource(call.dest, call.first),
                                                    call.second),
                               swapped |-> MergeSource(MergeSource(call.dest, call.second),
                                                       call.first)]]
    /\ UNCHANGED <<players, file, pc, steps, last>>

NextCall ==
    \/ CallUpdateRating
    \/ CallMergeRecord

SpecCalls == InitCalls /\ [][NextCall]_vars

-----------------------------------------------------------------------------
(* save_data followed by load_data into an empty registry *)

\* Games played range over 0..MaxSmallGames and over LargeGames.
MaxSmallGames == 8

LargeGames == {99, 100, 101}

\* (played, wins) pairs with 0 <= wins <= played
GamesAndWins ==
    {g \in ((0..MaxSmallGames) \cup LargeGames) \X (0..101) : g[2] <= g[1]}

\* (offense, defense) pairs, within and outside [RATING_MIN, RATING_MAX]
TripRatings == {<<100, 100>>, <<2999, 233>>, <<50, 3500>>}

\* A record as the registry holds it, lines 184-194 and 229-239
TripRecord(name, r, g) ==
    [display |-> name, offense |-> r[1], defense |-> r[2],
     played |-> g[1], wins |-> g[2], avg |-> RoundDiv(r[1] + r[2], 2),
     rank_d |-> get_computed_rank(r[2]), rank_o |-> get_computed_rank(r[1]),
     rank_a |-> get_computed_rank(RoundDiv(r[1] + r[2], 2))]

\* The other records of the registry: none, one sorted after and one sorted
\* before the record "Al B" when the averages are equal
TripOthers ==
    {<<>>,
     canonicalize(<<"b", "o">>) :> TripRecord(<<"b", "o">>, <<100, 100>>, <<3, 1>>),
     canonicalize(<<"A", "J">>) :> TripRecord(<<"A", "J">>, <<1700, 1532>>, <<7, 7>>)
        @@ canonicalize(<<"c", "y", ".">>) :> TripRecord(<<"c", "y", ".">>, <<140, 2400>>, <<2, 0>>)}

\* Registries with distinct canonical keys
TripRegistries ==
    {(canonicalize(<<"A", "l", " ", "B">>) :> TripRecord(<<"A", "l", " ", "B">>, r, g)) @@ others :
        r \in TripRatings, g \in GamesAndWins, others \in TripOthers}

InitTrip ==
    /\ players \in TripRegistries
    /\ file = <<>>
    /\ pc = "trip"
    /\ steps = 0
    /\ last = [command |-> <<>>, handler |-> "none", result |-> "none"]
    /\ call = [fn |-> "save_data", written |-> <<>>]

\* save_data(), lines 245-256
SaveData ==
    /\ pc = "trip" /\ call.fn = "save_data"
    /\ players' = Refreshed(players)
    /\ file' = FileOf(Refreshed(players))
    /\ call' = [fn |-> "load_data", written |-> Refreshed(players)]
    /\ UNCHANGED <<pc, steps, last>>

\* load_data() of the file written, into the empty registry of a new process
LoadWritten ==
    /\ pc = "trip" /\ call.fn = "load_data"
    /\ players' = load_data(file)
    /\ call' = [call EXCEPT !.fn = "loaded"]
    /\ UNCHANGED <<file, pc, steps, last>>

NextTrip ==
    \/ SaveData
    \/ LoadWritten

SpecTrip == InitTrip /\ [][NextTrip]_vars

-----------------------------------------------------------------------------
(* Properties *)

RankFields == {"rank_o", "rank_d", "rank_a"}
IsSentinel(rank) == rank \in {HIDDEN_RANK, SPECIAL_IM}

\* C1: no step lowers the tier ordinal of any rank of a record that stays in
\* the registry, and a rank that is a sentinel (lz, im) keeps its value.
RankTiersNeverRegress ==
    [][\A k \in DOMAIN players \cap DOMAIN players' :
         \A f \in RankFields :
            /\ RANK_ORDER[players'[k][f]] >= RANK_ORDER[players[k][f]]
            /\ IsSentinel(players[k][f]) => players'[k][f] = players[k][f]]_vars

\* C1 witness: a combine has merged a record into one that holds a sentinel,
\* which it still holds, and whose average tier is now above the one its merged
\* rating computes to; and another record, after a lost match, holds a defense
\* tier above the one its rating computes to.
RankKeptAfterRatingDrop ==
    /\ pc = "ready" /\ last.handler = "combine" /\ last.result = "combined"
    /\ LET dest_key == canonicalize(CombinePattern(last.command)[2])
       IN /\ dest_key \in DOMAIN players
          /\ players[dest_key].rank_d = SPECIAL_IM
          /\ RANK_ORDER[get_computed_rank(players[dest_key].avg)]
                < RANK_ORDER[players[dest_key].rank_a]
    /\ \E k \in DOMAIN players :
          /\ ~IsSentinel(players[k].rank_d)
          /\ RANK_ORDER[get_computed_rank(players[k].defense)]
                < RANK_ORDER[players[k].rank_d]

\* C2 (as claimed): once the snapshot is loaded every record's offense and
\* defense rating lies within [RATING_MIN, RATING_MAX].
RatingsWithinBounds ==
    pc # "start" =>
        \A k \in DOMAIN players :
            /\ RATING_MIN <= players[k].offense /\ players[k].offense <= RATING_MAX
            /\ RATING_MIN <= players[k].defense /\ players[k].defense <= RATING_MAX

\* C3 (as claimed): a combine that succeeds leaves a record under the
\* destination's key with the destination's display name and the summed games
\* and wins, and removes the source's key when it differs from the destination's.
CombineKeepsDestination ==
    [][(last'.handler = "combine" /\ last'.result = "combined") =>
         LET m == CombinePattern(last'.command)
             src_key == canonicalize(m[1])
             dest_key == canonicalize(m[2])
         IN /\ dest_key \in DOMAIN players'
            /\ players'[dest_key].display = players[dest_key].display
            /\ players'[dest_key].played
                  = players[src_key].played + players[dest_key].played
            /\ players'[dest_key].wins = players[src_key].wins + players[dest_key].wins
            /\ src_key # dest_key => src_key \notin DOMAIN players']_vars

\* The file holds the registry: loading it gives the same keys with the same
\* ratings, games played and ranks.
FileReflectsRegistry ==
    LET stored == load_data(file)
    IN /\ DOMAIN stored = DOMAIN players
       /\ \A k \in DOMAIN players :
            /\ stored[k].offense = players[k].offense
            /\ stored[k].defense = players[k].defense
            /\ stored[k].played = players[k].played
            /\ \A f \in RankFields : stored[k][f] = players[k][f]

\* C4 (as claimed): when a match or a successful combine has completed and the
\* loop waits for the next command, the file holds the registry.
SnapshotAfterEveryMutation ==
    (pc = "ready" /\ last.result \in {"saved", "combined"}) => FileReflectsRegistry

\* C5: update_rating with outcome loss returns a change <= 0 and, for a current
\* rating within [RATING_MIN, RATING_MAX], a new rating <= the current rating.
LossNeverRaisesRating ==
    (call.fn = "update_rating" /\ call.done /\ call.score = 0) =>
        /\ call.result.change <= 0
        /\ (RATING_MIN <= call.curr /\ call.curr <= RATING_MAX)
              => call.result.new_rating <= call.curr

\* C5 witness: a loss above the floor whose change with the protection bonus
\* would be positive, and is returned as 0.
LossCappedAtZero ==
    /\ call.fn = "update_rating" /\ call.done /\ call.score = 0
    /\ call.curr > RATING_MIN
    /\ ProtectionAdjustment(call.curr) * SCALE
          > ((call.mult4 * K_FACTOR) \div 4) * Expected(call.curr, call.total, call.len)
    /\ call.result.change = 0
    /\ call.result.new_rating = call.curr

\* r is n / t rounded to the nearest integer, a half to the even one
IsNearest(r, n, t) ==
    LET dist == IF r * t >= n THEN r * t - n ELSE n - r * t
    IN /\ 2 * dist <= t
       /\ 2 * dist = t => r % 2 = 0

\* C6: merge_record sums games and wins, takes each rating as the games-weighted
\* average rounded to the nearest integer (the source's rating when no games
\* were played), the average as round((offense + defense) / 2), and the display
\* name from the destination; 10 games at 200 merged with 5 games at 300 give
\* 15 games at 233; the sums do not depend on the order of two sources.
MergeRecordIsWeightedAverage ==
    (call.fn = "merge_record" /\ call.done) =>
        LET d == call.dest
            s == call.first
            r == call.result.once
            t == d.played + s.played
        IN /\ r.played = t
           /\ r.wins = d.wins + s.wins
           /\ t > 0 => /\ IsNearest(r.offense, d.offense * d.played + s.off * s.played, t)
                       /\ IsNearest(r.defense, d.defense * d.played + s.deff * s.played, t)
           /\ t = 0 => r.offense = s.off /\ r.defense = s.deff
           /\ IsNearest(r.avg, r.offense + r.defense, 2)
           /\ r.display = d.display
           /\ (d.played = 10 /\ d.offense = 200 /\ s.played = 5 /\ s.off = 300)
                 => r.played = 15 /\ r.offense = 233
           /\ call.result.both.played = call.result.swapped.played
           /\ call.result.both.wins = call.result.swapped.wins

\* C6 witness: the example has been merged.
MergeExampleReached ==
    /\ call.fn = "merge_record" /\ call.done
    /\ call.dest.played = 10 /\ call.dest.offense = 200 /\ call.dest.defense = 200
    /\ call.first.played = 5 /\ call.first.off = 300 /\ call.first.deff = 300
    /\ call.result.once.played = 15 /\ call.result.once.offense = 233
    /\ call.second.played > 0

\* A word of the command that is exactly a win type
HasWinTypeWord(command) ==
    \E i \in 1..Len(Words(command)) :
        Lower(Words(command)[i]) \in DOMAIN WIN_TYPE_MULTIPLIERS

\* C7 (as claimed): a match command without a win type word, and a combine
\* command that is malformed or names an unknown identity, leave the registry
\* and the file as they were and the loop ready for the next command.
RejectedCommandMutatesNothing ==
    [][(\/ last'.handler = "game" /\ ~HasWinTypeWord(last'.command)
        \/ /\ last'.handler = "combine"
           /\ \/ CombinePattern(last'.command) = NoMatch
              \/ canonicalize(CombinePattern(last'.command)[1]) \notin DOMAIN players
              \/ canonicalize(CombinePattern(last'.command)[2]) \notin DOMAIN players)
       => (players' = players /\ file' = file /\ pc' = "ready")]_vars

\* The call of C8: a win at rating 100 against 100 with the multiplier 1.0
IsFloorWinExample ==
    /\ call.fn = "update_rating" /\ call.done
    /\ call.curr = 100 /\ call.total = 100 /\ call.len = 1
    /\ call.score = 1 /\ call.mult4 = 4

\* C8 (as claimed): expected score 0.5, raw delta 16, delta 37, new rating 137.
FloorWinExampleAsClaimed ==
    IsFloorWinExample =>
        /\ 2 * Expected(call.curr, call.total, call.len) = SCALE
        /\ ((call.mult4 * K_FACTOR) \div 4)
              * (SCALE - Expected(call.curr, call.total, call.len)) = 16 * SCALE
        /\ call.result.change = 37 * SCALE
        /\ call.result.new_rating = 137

\* C8 (amended): expected score 0.5, raw delta 16, the adjustment of the band
\* of rating 100 (ratings up to 150) is 34, the delta 50 and the new rating 150.
FloorWinExample ==
    IsFloorWinExample =>
        /\ 2 * Expected(call.curr, call.total, call.len) = SCALE
        /\ ((call.mult4 * K_FACTOR) \div 4)
              * (SCALE - Expected(call.curr, call.total, call.len)) = 16 * SCALE
        /\ ProtectionAdjustment(call.curr) = 34
        /\ call.result.change = 50 * SCALE
        /\ call.result.new_rating = 150

\* C8 witness: the example has been computed.
FloorWinExampleReached == IsFloorWinExample /\ call.result.new_rating > call.curr

\* C9: every record has 0 <= wins <= gamesPlayed.
WinsWithinGamesPlayed ==
    \A k \in DOMAIN players :
        0 <= players[k].wins /\ players[k].wins <= players[k].played

\* C9 witness: a saved match in which one name was on both teams, so that its
\* record gained two games and one win; and a record merged from two lines.
SameNameOnBothTeams ==
    /\ pc = "ready" /\ last.handler = "game" /\ last.result = "saved"
    /\ LET m == GamePattern(last.command)
           t1 == parse_team(m[1])
           t2 == parse_team(m[3])
       IN \E i \in 1..Len(t1[1] \o t1[2]) : \E j \in 1..Len(t2[1] \o t2[2]) :
             LET k == canonicalize((t1[1] \o t1[2])[i])
             IN /\ k = canonicalize((t2[1] \o t2[2])[j])
                /\ players[k].played >= 2
                /\ players[k].wins >= 1
                /\ players[k].wins < players[k].played

\* C10 (as claimed): no match command ends the command loop: after it the loop
\* is ready for the next command.
MatchCommandsRunToCompletion ==
    last.handler = "game" => pc = "ready"


\* The canonical keys of a roster
RosterKeys(names) == {canonicalize(names[i]) : i \in 1..Len(names)}

\* C11 (as claimed): a saved match adds one game to every participant, one win
\* to the members of team 1 and none to the others, changes no rating but the
\* one of a role the participant played, and leaves the ratings, games and wins
\* of every other record as they were.
OneGamePerParticipant ==
    [][(last'.handler = "game" /\ last'.result = "saved") =>
         LET m == GamePattern(last'.command)
             t1 == parse_team(m[1])
             t2 == parse_team(m[3])
             team1 == t1[1] \o t1[2]
             everyone == team1 \o t2[1] \o t2[2]
             before == CreateAll(players, everyone)
         IN /\ \A k \in RosterKeys(everyone) :
                 /\ players'[k].played = before[k].played + 1
                 /\ players'[k].wins
                       = before[k].wins + (IF k \in RosterKeys(team1) THEN 1 ELSE 0)
                 /\ k \notin RosterKeys(t1[1] \o t2[1])
                       => players'[k].offense = before[k].offense
                 /\ k \notin RosterKeys(t1[2] \o t2[2])
                       => players'[k].defense = before[k].defense
            /\ \A k \in DOMAIN players \ RosterKeys(everyone) :
                 /\ k \in DOMAIN players'
                 /\ players'[k].offense = players[k].offense
                 /\ players'[k].defense = players[k].defense
                 /\ players'[k].played = players[k].played
                 /\ players'[k].wins = players[k].wins]_vars

\* The record under key k was read back with the ratings and games written
ReadBack(k) ==
    /\ k \in DOMAIN players
    /\ players[k].offense = call.written[k].offense
    /\ players[k].defense = call.written[k].defense
    /\ players[k].played = call.written[k].played

\* C12 (as claimed): save_data followed by load_data into an empty registry
\* reproduces offense, defense, gamesPlayed and wins of every record, whatever
\* the number of games played.
SnapshotRoundTripsWins ==
    call.fn = "loaded" =>
        \A k \in DOMAIN call.written :
            ReadBack(k) /\ players[k].wins = call.written[k].wins

\* C12 (amended): save_data followed by load_data into an empty registry
\* reproduces offense, defense and gamesPlayed of every record, and its wins
\* when gamesPlayed <= 100; with 101 games and 51 wins the file holds 50 percent
\* and 50 wins are read back.
SnapshotRoundTrip ==
    call.fn = "loaded" =>
        /\ DOMAIN players = DOMAIN call.written
        /\ \A k \in DOMAIN call.written :
            /\ ReadBack(k)
            /\ call.written[k].played <= 100 => players[k].wins = call.written[k].wins
            /\ (call.written[k].played = 101 /\ call.written[k].wins = 51)
                  => players[k].wins = 50

\* C12 witness: a registry of three records has been written and read back, one
\* of them with 100 games and 57 wins, which it still has.
RoundTripAtHundredGames ==
    /\ call.fn = "loaded"
    /\ Cardinality(DOMAIN call.written) = 3
    /\ \E k \in DOMAIN call.written :
          /\ call.written[k].played = 100 /\ call.written[k].wins = 57
          /\ players[k].played = 100 /\ players[k].wins = 57
=============================================================================
